---- MODULE Spec2Model ----
(***************************************************************************)
(* Model of src/app.py: a Flask service that trusts a client IP when it    *)
(* lies in a configured subnet or when a Redis hash "<prefix>:<ip>"        *)
(* exists, and lets an identity claim its current IP ("/trust_me") through *)
(* an SMEMBERS read followed by a queued MULTI/EXEC pipeline.              *)
(***************************************************************************)
EXTENDS Integers, Sequences, FiniteSets, TLC

VARIABLES
    db,                      \* the Redis keyspace: key -> value
    redis_ok,                \* TRUE while store calls return, FALSE while they raise
    CLIENT_USERNAME_HEADER,  \* os.getenv("CLIENT_USERNAME_HEADER"), fixed per process
    pc,                      \* per worker: position inside trust_me
    ctx,                     \* per worker: username and new_ip of the request in flight
    pipe,                    \* per worker: the commands queued on its pipeline
    response                 \* the response most recently returned to a client

vars == <<db, redis_ok, CLIENT_USERNAME_HEADER, pc, ctx, pipe, response>>

----------------------------------------------------------------------------
(* Configuration and the finite universe of inputs.                        *)

REDIS_PREFIX == "ip-whitelist"

None == "<none>"

\* Request workers that may run handlers concurrently (the WSGI server's threads).
Workers == {"w1", "w2"}

Users == {"alice", "bob"}

\* Address texts the clients present, with the octets ipaddress parses them to.
Octets ==
    ( "8.8.8.8"  :> <<8, 8, 8, 8>>  @@
      "9.9.9.9"  :> <<9, 9, 9, 9>>  @@
      "10.1.2.3" :> <<10, 1, 2, 3>> )

IPs == DOMAIN Octets

\* TRUSTED_SUBNETS as configured: comma-separated entries, one of them unparsable.
TRUSTED_SUBNETS == <<"10.0.0.0/8", "10.0.0.0/33">>

\* What ip_network yields for an entry it cannot parse (it raises ValueError).
NoNetwork == [network_address |-> <<>>, prefixlen |-> -1]

\* ipaddress.ip_network
ip_network(subnet_str) ==
    IF subnet_str = "10.0.0.0/8"
    THEN [network_address |-> <<10, 0, 0, 0>>, prefixlen |-> 8]
    ELSE NoNetwork

\* The module-level loop that keeps every subnet that parses.
trusted_subnets ==
    { ip_network(TRUSTED_SUBNETS[i]) :
        i \in { j \in 1..Len(TRUSTED_SUBNETS) : ip_network(TRUSTED_SUBNETS[j]) # NoNetwork } }

ToInt(o) == ((o[1] * 256 + o[2]) * 256 + o[3]) * 256 + o[4]

\* ipaddress: "address in network".
InNetwork(ip, subnet) ==
    LET shift == 2 ^ (32 - subnet.prefixlen)
    IN  ToInt(Octets[ip]) \div shift = ToInt(subnet.network_address) \div shift

\* any(ipaddress.ip_address(ip) in subnet for subnet in trusted_subnets)
InTrustedSubnet(ip) == \E subnet \in trusted_subnets : InNetwork(ip, subnet)

----------------------------------------------------------------------------
(* Redis keys and values.  A key is the sequence of its colon-separated    *)
(* segments, so "startswith(prefix:)" is a test of the first segment.      *)

IpKey(ip) == <<REDIS_PREFIX, ip>>

UserKey(username) == <<REDIS_PREFIX, "user", username>>

\* A key of another application sharing the Redis database.
ForeignKey == <<"other-app", "session">>

IpKeys == { IpKey(ip) : ip \in IPs }

Keys == IpKeys \cup { UserKey(u) : u \in Users } \cup {ForeignKey}

Nil == [type |-> "none", username |-> None, members |-> {}]

Hash(username) == [type |-> "hash", username |-> username, members |-> {}]

SetOf(members) == [type |-> "set", username |-> None, members |-> members]

StringValue == [type |-> "string", username |-> None, members |-> {}]

\* EXISTS key
Exists(d, key) == d[key].type # "none"

\* SMEMBERS key
SMembers(d, key) == d[key].members

Del(key) == [cmd |-> "DEL", key |-> key, arg |-> None]

HSet(key, username) == [cmd |-> "HSET", key |-> key, arg |-> username]

SAdd(key, member) == [cmd |-> "SADD", key |-> key, arg |-> member]

\* The effect of one queued command on the keyspace.
ApplyCommand(d, c) ==
    CASE c.cmd = "DEL"  -> [d EXCEPT ![c.key] = Nil]
      [] c.cmd = "HSET" -> [d EXCEPT ![c.key] = Hash(c.arg)]
      [] c.cmd = "SADD" -> [d EXCEPT ![c.key] = SetOf(d[c.key].members \cup {c.arg})]

RECURSIVE ExecutePipeline(_, _)
\* pipe.execute(): MULTI, the queued commands in order, EXEC.
ExecutePipeline(d, cmds) ==
    IF cmds = <<>> THEN d
    ELSE ExecutePipeline(ApplyCommand(d, Head(cmds)), Tail(cmds))

----------------------------------------------------------------------------
(* Request headers.  A header value is the sequence of its comma-separated *)
(* fields as sent (before strip()); the empty sequence is an absent        *)
(* client-IP header, None an absent identity header.                       *)

MaxProxies == 1

\* Field texts a client may send first in the client-IP header.
RawFields == IPs \cup {" 9.9.9.9 ", "bogus"}

\* str.strip()
Strip(field) == IF field = " 9.9.9.9 " THEN "9.9.9.9" ELSE field

RECURSIVE Proxies(_)
\* k further hops appended by proxies behind the first field.
Proxies(k) == IF k = 0 THEN <<>> ELSE <<"10.1.2.3">> \o Proxies(k - 1)

IpHeaders == {<<>>} \cup { <<f>> \o Proxies(k) : f \in RawFields, k \in 0..MaxProxies }

UserHeaders == {None, ""} \cup Users

Requests == [xff : IpHeaders, user : UserHeaders]

Returned(value) == [raised |-> "", value |-> value]

Raised(exception) == [raised |-> exception, value |-> None]

\* get_client_ip that falls back to the peer address (here 8.8.8.8) when the header
\* is absent, instead of raising.
get_client_ip_PeerFallback(req) ==
    IF req.xff = <<>> THEN Returned("8.8.8.8")
    ELSE LET header_value == Strip(Head(req.xff))
         IN  IF header_value \in IPs THEN Returned(header_value)
             ELSE Raised("ValueError")

\* get_client_ip(): the canonical text of the first field, or ValueError.
get_client_ip(req) ==
    IF req.xff = <<>> THEN Raised("ValueError")
    ELSE LET header_value == Strip(Head(req.xff))
         IN  IF header_value \in IPs THEN Returned(header_value)
             ELSE Raised("ValueError")

\* get_client_username(): the identity header, RuntimeError when its name is not
\* configured, ValueError when the header is absent or empty.
get_client_username(req) ==
    IF CLIENT_USERNAME_HEADER = None THEN Raised("RuntimeError")
    ELSE IF req.user = None THEN Raised("ValueError")
    ELSE IF req.user = "" THEN Raised("ValueError")
    ELSE Returned(req.user)

----------------------------------------------------------------------------
(* Responses.  store_calls counts the round trips to Redis the handler     *)
(* made; deleted is the set of old keys whose DEL the handler executed.    *)

Resp(op, status, path, ip, username, store_calls, deleted) ==
    [op |-> op, status |-> status, path |-> path, ip |-> ip,
     username |-> username, store_calls |-> store_calls, deleted |-> deleted]

NoResponse == Resp("none", 0, "none", None, None, 0, {})

\* is_trusted with the operands of "or" swapped: EXISTS is evaluated first.
is_trusted_StoreFirst(ip) ==
    IF ~redis_ok
    THEN [raised |-> TRUE, value |-> FALSE, store_calls |-> 1]
    ELSE IF Exists(db, IpKey(ip))
    THEN [raised |-> FALSE, value |-> TRUE, store_calls |-> 1]
    ELSE [raised |-> FALSE, value |-> InTrustedSubnet(ip), store_calls |-> 1]

\* is_trusted(ip): the subnet test first; EXISTS is only evaluated when it fails.
is_trusted(ip) ==
    IF InTrustedSubnet(ip)
    THEN [raised |-> FALSE, value |-> TRUE, store_calls |-> 0]
    ELSE IF ~redis_ok
    THEN [raised |-> TRUE, value |-> FALSE, store_calls |-> 1]
    ELSE [raised |-> FALSE, value |-> Exists(db, IpKey(ip)), store_calls |-> 1]

\* check whose exception handler answers 204 instead of abort(400).
check_FailOpen(req) ==
    LET client_ip == get_client_ip(req)
    IN  IF client_ip.raised # ""
        THEN Resp("check", 400, "invalid", None, None, 0, {})
        ELSE LET t == is_trusted(client_ip.value)
             IN  IF t.raised
                 THEN Resp("check", 204, "store_error", client_ip.value, None, t.store_calls, {})
                 ELSE IF t.value
                 THEN Resp("check", 204, "trusted", client_ip.value, None, t.store_calls, {})
                 ELSE Resp("check", 403, "denied", client_ip.value, None, t.store_calls, {})

\* check(): 204 when trusted, 403 when not, abort(400) on any exception.
check(req) ==
    LET client_ip == get_client_ip(req)
    IN  IF client_ip.raised # ""
        THEN Resp("check", 400, "invalid", None, None, 0, {})
        ELSE LET t == is_trusted(client_ip.value)
             IN  IF t.raised
                 THEN Resp("check", 400, "store_error", client_ip.value, None, t.store_calls, {})
                 ELSE IF t.value
                 THEN Resp("check", 204, "trusted", client_ip.value, None, t.store_calls, {})
                 ELSE Resp("check", 403, "denied", client_ip.value, None, t.store_calls, {})

----------------------------------------------------------------------------
(* trust_me, in the two steps other requests can interleave with: the      *)
(* SMEMBERS read that builds the pipeline, and pipe.execute().             *)

\* The orders in which iterating the set returned by SMEMBERS may visit it.
Orders(S) ==
    { f \in [1..Cardinality(S) -> S] : \A i, j \in 1..Cardinality(S) : f[i] = f[j] => i = j }

RECURSIVE RevokeLoop_KeepOld(_, _, _, _)
\* The loop without "pipe.delete(old_ip_key)" for a changed IP: the old record stays.
RevokeLoop_KeepOld(order, i, new_ip, queued) ==
    IF i > Len(order) THEN [returned |-> FALSE, queued |-> queued]
    ELSE LET old_ip_key == order[i]
         IN  IF old_ip_key[1] # REDIS_PREFIX
             THEN RevokeLoop_KeepOld(order, i + 1, new_ip, Append(queued, Del(old_ip_key)))
             ELSE IF Tail(old_ip_key) = <<new_ip>>
             THEN [returned |-> TRUE, queued |-> queued]
             ELSE RevokeLoop_KeepOld(order, i + 1, new_ip, queued)

RECURSIVE RevokeLoop_NoEarlyReturn(_, _, _, _)
\* The loop without the "already trusted" return: every old key is deleted and the
\* claim is written again.
RevokeLoop_NoEarlyReturn(order, i, new_ip, queued) ==
    IF i > Len(order) THEN [returned |-> FALSE, queued |-> queued]
    ELSE RevokeLoop_NoEarlyReturn(order, i + 1, new_ip, Append(queued, Del(order[i])))

RECURSIVE RevokeLoop(_, _, _, _)
\* The for loop over the identity's index: queue a DEL for every old key, and
\* return at once when an entry is the new IP.
RevokeLoop(order, i, new_ip, queued) ==
    IF i > Len(order) THEN [returned |-> FALSE, queued |-> queued]
    ELSE LET old_ip_key == order[i]
         IN  IF old_ip_key[1] # REDIS_PREFIX
             THEN RevokeLoop(order, i + 1, new_ip, Append(queued, Del(old_ip_key)))
             ELSE IF Tail(old_ip_key) = <<new_ip>>
             THEN [returned |-> TRUE, queued |-> queued]
             ELSE RevokeLoop(order, i + 1, new_ip, Append(queued, Del(old_ip_key)))

\* The index update without "pipe.delete" of the index set: entries accumulate.
IndexUpdate_NoIndexDelete(username, new_ip) ==
    <<HSet(IpKey(new_ip), username),
      SAdd(UserKey(username), IpKey(new_ip))>>

\* "update the index to point to the new IP"
IndexUpdate(username, new_ip) ==
    <<Del(UserKey(username)),
      HSet(IpKey(new_ip), username),
      SAdd(UserKey(username), IpKey(new_ip))>>

\* The old keys a pipeline deletes (every DEL but the one of the index itself).
DeletedKeys(cmds, username) ==
    { cmds[i].key : i \in { j \in 1..Len(cmds) :
        cmds[j].cmd = "DEL" /\ cmds[j].key # UserKey(username) } }

Idle == [username |-> None, new_ip |-> None]

\* A handler returns without leaving a pipeline queued.
Respond(r) ==
    /\ response' = r
    /\ UNCHANGED <<db, redis_ok, CLIENT_USERNAME_HEADER, pc, ctx, pipe>>

\* trust_me without the "already in a trusted subnet" return: the claim of an
\* in-range address goes on to the store like any other.
TrustMeBegin_NoRangeCheck(w, req) ==
    /\ pc[w] = "idle"
    /\ LET new_ip == get_client_ip(req)
           username == get_client_username(req)
       IN  IF new_ip.raised # ""
           THEN Respond(Resp("trust_me", 400, "invalid", None, None, 0, {}))
           ELSE IF username.raised = "RuntimeError"
           THEN Respond(Resp("trust_me", 400, "config", None, None, 0, {}))
           ELSE IF username.raised # ""
           THEN Respond(Resp("trust_me", 400, "invalid", None, None, 0, {}))
           ELSE IF ~redis_ok
           THEN Respond(Resp("trust_me", 400, "store_error", new_ip.value, username.value, 1, {}))
           ELSE \E order \in Orders(SMembers(db, UserKey(username.value))) :
                LET loop == RevokeLoop(order, 1, new_ip.value, <<>>)
                IN  IF loop.returned
                    THEN Respond(Resp("trust_me", 204, "unchanged", new_ip.value,
                                      username.value, 1, {}))
                    ELSE /\ pc' = [pc EXCEPT ![w] = "queued"]
                         /\ ctx' = [ctx EXCEPT ![w] = [username |-> username.value,
                                                       new_ip |-> new_ip.value]]
                         /\ pipe' = [pipe EXCEPT ![w] =
                                loop.queued \o IndexUpdate(username.value, new_ip.value)]
                         /\ UNCHANGED <<db, redis_ok, CLIENT_USERNAME_HEADER, response>>

\* trust_me up to the point where the pipeline is queued.
TrustMeBegin(w, req) ==
    /\ pc[w] = "idle"
    /\ LET new_ip == get_client_ip(req)
           username == get_client_username(req)
       IN  IF new_ip.raised # ""
           THEN Respond(Resp("trust_me", 400, "invalid", None, None, 0, {}))
           ELSE IF username.raised = "RuntimeError"
           THEN Respond(Resp("trust_me", 400, "config", None, None, 0, {}))
           ELSE IF username.raised # ""
           THEN Respond(Resp("trust_me", 400, "invalid", None, None, 0, {}))
           ELSE IF InTrustedSubnet(new_ip.value)
           THEN Respond(Resp("trust_me", 204, "range", new_ip.value, username.value, 0, {}))
           ELSE IF ~redis_ok
           THEN Respond(Resp("trust_me", 400, "store_error", new_ip.value, username.value, 1, {}))
           ELSE \E order \in Orders(SMembers(db, UserKey(username.value))) :
                LET loop == RevokeLoop(order, 1, new_ip.value, <<>>)
                IN  IF loop.returned
                    THEN Respond(Resp("trust_me", 204, "unchanged", new_ip.value,
                                      username.value, 1, {}))
                    ELSE /\ pc' = [pc EXCEPT ![w] = "queued"]
                         /\ ctx' = [ctx EXCEPT ![w] = [username |-> username.value,
                                                       new_ip |-> new_ip.value]]
                         /\ pipe' = [pipe EXCEPT ![w] =
                                loop.queued \o IndexUpdate(username.value, new_ip.value)]
                         /\ UNCHANGED <<db, redis_ok, CLIENT_USERNAME_HEADER, response>>

\* pipe.execute() returns: the transaction ran, 204.
TrustMeExecute(w) ==
    /\ pc[w] = "queued"
    /\ redis_ok
    /\ db' = ExecutePipeline(db, pipe[w])
    /\ response' = Resp("trust_me", 204, "claimed", ctx[w].new_ip, ctx[w].username, 2,
                        DeletedKeys(pipe[w], ctx[w].username))
    /\ pc' = [pc EXCEPT ![w] = "idle"]
    /\ ctx' = [ctx EXCEPT ![w] = Idle]
    /\ pipe' = [pipe EXCEPT ![w] = <<>>]
    /\ UNCHANGED <<redis_ok, CLIENT_USERNAME_HEADER>>

\* pipe.execute() raises ConnectionError or TimeoutError: 400.  The transaction
\* either never reached the server or ran there before the reply was lost.
TrustMeExecuteError(w) ==
    /\ pc[w] = "queued"
    /\ ~redis_ok
    /\ \E committed \in BOOLEAN :
         db' = IF committed THEN ExecutePipeline(db, pipe[w]) ELSE db
    /\ response' = Resp("trust_me", 400, "store_error", ctx[w].new_ip, ctx[w].username, 2, {})
    /\ pc' = [pc EXCEPT ![w] = "idle"]
    /\ ctx' = [ctx EXCEPT ![w] = Idle]
    /\ pipe' = [pipe EXCEPT ![w] = <<>>]
    /\ UNCHANGED <<redis_ok, CLIENT_USERNAME_HEADER>>

\* A /check that stores its verdict under a key of its own when it denies.
Check_StoresVerdict(req) ==
    /\ response' = check(req)
    /\ db' = IF check(req).status = 403 THEN [db EXCEPT ![ForeignKey] = StringValue] ELSE db
    /\ UNCHANGED <<redis_ok, CLIENT_USERNAME_HEADER, pc, ctx, pipe>>

\* The /check handler: one step, at most one store call.
Check(req) == Respond(check(req))

\* The store becomes unreachable, or reachable again.
RedisDown ==
    /\ redis_ok
    /\ redis_ok' = FALSE
    /\ UNCHANGED <<db, CLIENT_USERNAME_HEADER, pc, ctx, pipe, response>>

RedisUp ==
    /\ ~redis_ok
    /\ redis_ok' = TRUE
    /\ UNCHANGED <<db, CLIENT_USERNAME_HEADER, pc, ctx, pipe, response>>

----------------------------------------------------------------------------
(* The shape of the state.                                                 *)

Values ==
    {Nil, StringValue} \cup { Hash(u) : u \in Users }
        \cup { SetOf(S) : S \in SUBSET (IpKeys \cup {ForeignKey}) \ {{}} }

TypeOK ==
    /\ db \in [Keys -> Values]
    /\ redis_ok \in BOOLEAN
    /\ CLIENT_USERNAME_HEADER \in {None, "X-Remote-User"}
    /\ pc \in [Workers -> {"idle", "queued"}]
    /\ ctx \in [Workers -> [username : Users \cup {None}, new_ip : IPs \cup {None}]]
    /\ \A w \in Workers :
         /\ pc[w] = "idle" => (ctx[w] = Idle /\ pipe[w] = <<>>)
         /\ pc[w] = "queued" =>
              /\ ctx[w].username \in Users
              /\ ctx[w].new_ip \in IPs
              /\ Len(pipe[w]) >= 3
              /\ SubSeq(pipe[w], Len(pipe[w]) - 2, Len(pipe[w]))
                    = IndexUpdate(ctx[w].username, ctx[w].new_ip)
    /\ response.op \in {"none", "check", "trust_me"}
    /\ response.status \in {0, 204, 400, 403}
    /\ response.ip \in IPs \cup {None}
    /\ response.username \in Users \cup {None}
    /\ response.store_calls \in 0..2
    /\ response.deleted \subseteq Keys

----------------------------------------------------------------------------
(* Specifications.                                                         *)

\* The process after start-up against an empty database.
Init ==
    /\ db = [k \in Keys |-> Nil]
    /\ redis_ok = TRUE
    /\ CLIENT_USERNAME_HEADER \in {None, "X-Remote-User"}
    /\ pc = [w \in Workers |-> "idle"]
    /\ ctx = [w \in Workers |-> Idle]
    /\ pipe = [w \in Workers |-> <<>>]
    /\ response = NoResponse

\* Requests served concurrently by all workers.
Next ==
    \/ \E w \in Workers, req \in Requests : TrustMeBegin(w, req)
    \/ \E w \in Workers : TrustMeExecute(w)
    \/ \E w \in Workers : TrustMeExecuteError(w)
    \/ \E req \in Requests : Check(req)
    \/ RedisDown
    \/ RedisUp

Spec == Init /\ [][Next]_vars

\* Requests served one at a time: a single worker.
NextSeq ==
    \/ \E req \in Requests : TrustMeBegin("w1", req)
    \/ TrustMeExecute("w1")
    \/ TrustMeExecuteError("w1")
    \/ \E req \in Requests : Check(req)
    \/ RedisDown
    \/ RedisUp

SeqSpec == Init /\ [][NextSeq]_vars

\* The entries an outside actor may have put into an identity's index.
IndexEntries == { IpKey(ip) : ip \in { i \in IPs : ~InTrustedSubnet(i) } } \cup {ForeignKey}

\* The process started against a database that other clients have written to:
\* any records for the addresses outside the trusted subnets, any index sets,
\* and a key of another application.
InitExt ==
    /\ db \in { [k \in Keys |->
                   IF k \in DOMAIN h THEN (IF h[k] = None THEN Nil ELSE Hash(h[k]))
                   ELSE IF k \in DOMAIN idx THEN (IF idx[k] = {} THEN Nil ELSE SetOf(idx[k]))
                   ELSE IF k = ForeignKey THEN StringValue
                   ELSE Nil] :
                h \in [IndexEntries \ {ForeignKey} -> Users \cup {None}],
                idx \in [{ UserKey(u) : u \in Users } -> SUBSET IndexEntries] }
    /\ redis_ok = TRUE
    /\ CLIENT_USERNAME_HEADER = "X-Remote-User"
    /\ pc = [w \in Workers |-> "idle"]
    /\ ctx = [w \in Workers |-> Idle]
    /\ pipe = [w \in Workers |-> <<>>]
    /\ response = NoResponse

ExtSpec == InitExt /\ [][NextSeq]_vars

----------------------------------------------------------------------------
(* Vocabulary of the properties.                                           *)

\* The addresses outside every trusted subnet.
OutsideIPs == { ip \in IPs : ~InTrustedSubnet(ip) }

\* The addresses whose IP record names the identity.
ClaimedBy(username) == { ip \in IPs : db[IpKey(ip)] = Hash(username) }

\* The addresses whose existing IP record the identity's index holds.
HeldIPs(username) ==
    { ip \in IPs : IpKey(ip) \in SMembers(db, UserKey(username)) /\ Exists(db, IpKey(ip)) }

\* A /check request for the address.
CheckOf(ip) == [xff |-> <<ip>>, user |-> None]

\* A /trust_me request of the identity from the address.
ClaimOf(username, ip) == [xff |-> <<ip>>, user |-> username]

\* The last response is a successful trust_me of the identity for the address.
Trusted204(username, ip) ==
    /\ response.op = "trust_me"
    /\ response.status = 204
    /\ response.username = username
    /\ response.ip = ip

Quiescent == \A w \in Workers : pc[w] = "idle"

----------------------------------------------------------------------------
(* Properties.                                                             *)

\* C1: in every reachable state at most one IP record names a given identity,
\* whatever the interleaving of concurrent trust_me requests.
C1_OneRecordPerIdentity ==
    \A u \in Users : Cardinality(ClaimedBy(u)) <= 1

\* C2: served one at a time, when trust_me(u, a) has returned 204 and then
\* trust_me(u, b) returns 204 for another address outside the trusted subnets, a
\* check of a is denied with 403 and a check of b succeeds at once; and while the
\* second request is between its read and its execute, a and b are not both
\* records of u.
C2_ClaimTransition ==
    [][ \A u \in Users : \A a, b \in OutsideIPs :
          (a # b /\ Trusted204(u, a)) =>
            /\ (pc["w1"] = "queued" /\ ctx["w1"] = [username |-> u, new_ip |-> b])
                 => ~(a \in ClaimedBy(u) /\ b \in ClaimedBy(u))
            /\ Trusted204(u, b)' =>
                 /\ check(CheckOf(a))'.status = 403
                 /\ check(CheckOf(b))'.status = 204 ]_vars

\* C2 witness: a claim of b by u has just executed, it deleted u's record of a,
\* and now a is denied and b is trusted.
C2_Witness ==
    \E u \in Users : \E a, b \in OutsideIPs :
        /\ a # b
        /\ Trusted204(u, b)
        /\ response.path = "claimed"
        /\ IpKey(a) \in response.deleted
        /\ check(CheckOf(a)).status = 403
        /\ check(CheckOf(b)).status = 204

\* C3: whenever the last response is a successful trust_me for an address and the
\* store is reachable, a check of that address succeeds.
C3_CheckAfterSuccess ==
    (response.op = "trust_me" /\ response.status = 204 /\ redis_ok)
        => check(CheckOf(response.ip)).status = 204

\* C4: once racing trust_me requests have all completed, the store is one a serial
\* order produces: every IP record naming an identity is the single entry of that
\* identity's index.
C4_RaceIsSerial ==
    Quiescent =>
        \A u \in Users : \A ip \in ClaimedBy(u) : SMembers(db, UserKey(u)) = {IpKey(ip)}

\* C5: served one at a time, a trust_me(u, a) that directly follows a successful
\* trust_me(u, a) queues no pipeline and leaves the store as it was; with the store
\* reachable it returns 204, by the "already trusted" return when a is outside the
\* trusted subnets.
C5_Idempotent ==
    [][ \A u \in Users : \A a \in IPs :
          (Trusted204(u, a) /\ TrustMeBegin("w1", ClaimOf(u, a))) =>
            /\ db' = db
            /\ pc'["w1"] = "idle"
            /\ pipe'["w1"] = <<>>
            /\ redis_ok =>
                 /\ response'.status = 204
                 /\ response'.path = IF a \in OutsideIPs THEN "unchanged" ELSE "range"
                 /\ response'.store_calls <= 1 ]_vars

\* C5 witness: the identity's record and index are in place and the last response
\* is the "already trusted" return.
C5_Witness ==
    \E u \in Users : \E a \in OutsideIPs :
        /\ Trusted204(u, a)
        /\ response.path = "unchanged"
        /\ a \in ClaimedBy(u)
        /\ SMembers(db, UserKey(u)) = {IpKey(a)}

\* C6: for an address in a trusted subnet check succeeds with no store call,
\* whether the store is empty, populated or unreachable.
C6_RangeNoStoreAccess ==
    /\ \A req \in Requests :
         LET client_ip == get_client_ip(req)
         IN  (client_ip.raised = "" /\ InTrustedSubnet(client_ip.value)) =>
                 /\ check(req).status = 204
                 /\ check(req).store_calls = 0
    /\ (response.op = "check" /\ response.ip \in IPs \ OutsideIPs) =>
         /\ response.status = 204
         /\ response.store_calls = 0

\* C6 witness: a check of an in-range address was answered 204 without a store
\* call, and the store is populated and unreachable.
C6_Witness ==
    /\ response.op = "check"
    /\ response.ip \in IPs \ OutsideIPs
    /\ response.status = 204
    /\ response.store_calls = 0
    /\ ~redis_ok
    /\ \E ip \in IPs : Exists(db, IpKey(ip))
    /\ check(CheckOf(response.ip)) = response

\* C7: a store error while checking an address outside the trusted subnets never
\* yields the success response.
C7_FailClosed ==
    /\ \A req \in Requests :
         LET client_ip == get_client_ip(req)
         IN  (client_ip.raised = "" /\ client_ip.value \in OutsideIPs /\ ~redis_ok) =>
                 check(req).status # 204
    /\ (response.op = "check" /\ response.path = "store_error") => response.status # 204

\* C7 witness: a check of a claimed address was answered while the store raised.
C7_Witness ==
    /\ response.op = "check"
    /\ response.path = "store_error"
    /\ response.status = 400
    /\ response.ip \in OutsideIPs
    /\ Exists(db, IpKey(response.ip))

\* C8: a step that ends a trust_me request with a store error leaves the store
\* exactly as it was, and the response is not the success response.
C8_ErrorLeavesStore ==
    [][ (response'.op = "trust_me" /\ response'.path = "store_error") =>
          (db' = db /\ response'.status # 204) ]_vars

\* C9: every entry of an identity's index is the key of an existing IP record that
\* names that identity.
C9_NoDanglingIndex ==
    \A u \in Users : \A k \in SMembers(db, UserKey(u)) : db[k] = Hash(u)

\* C10: after a successful trust_me(u, new_ip) for an address outside the trusted
\* subnets, no IP record other than that of new_ip is still held by u's index,
\* also when the index held several records before.
C10_SelfHealing ==
    \A u \in Users : \A ip \in OutsideIPs :
        Trusted204(u, ip) => HeldIPs(u) \subseteq {ip}


\* The addresses inside a trusted subnet.
InsideIPs == IPs \ OutsideIPs

\* The request carries a well-formed address in its first client-IP field.
WellFormedIp(req) == req.xff # <<>> /\ Strip(Head(req.xff)) \in IPs

\* C11: a trust_me whose new IP lies in a trusted subnet returns 204 without a store
\* call and changes neither the store nor any pipeline (no record written, index
\* untouched, nothing revoked); and no IP record of an in-range address ever exists
\* in a state reached from the empty store (stated of both ends of every step).
\* A trust_me step for ip either answers about ip or queues a pipeline, so only
\* such steps are compared with the handler.
C11_RangeClaimWritesNothing ==
    [][ /\ \A ip \in InsideIPs : ~Exists(db, IpKey(ip)) /\ ~Exists(db', IpKey(ip))
        /\ \A w \in Workers : \A u \in Users : \A ip \in InsideIPs :
             ( /\ response'.ip = ip \/ pc' # pc
               /\ CLIENT_USERNAME_HEADER # None
               /\ TrustMeBegin(w, ClaimOf(u, ip)) ) =>
                 /\ db' = db
                 /\ pc' = pc
                 /\ pipe' = pipe
                 /\ response'.status = 204
                 /\ response'.store_calls = 0 ]_vars

\* C11 witness: an identity that holds a claimed address has just been answered 204
\* for an in-range address; its record and index are still there.
C11_Witness ==
    \E u \in Users : \E ip \in InsideIPs : \E a \in OutsideIPs :
        /\ Trusted204(u, ip)
        /\ response.path = "range"
        /\ a \in ClaimedBy(u)
        /\ SMembers(db, UserKey(u)) = {IpKey(a)}
        /\ ~Exists(db, IpKey(ip))


\* The trust_me requests with invalid input: client-IP header absent or malformed,
\* identity header absent or empty.
InvalidClaims ==
    { req \in Requests : ~WellFormedIp(req) \/ req.user \in {None, ""} }

\* C12: a trust_me request with invalid input is answered 400 without a store call:
\* the store is unchanged and no pipeline is queued.
C12_InvalidInputNoStoreAccess ==
    [][ \A w \in Workers : \A req \in InvalidClaims :
          TrustMeBegin(w, req) =>
            /\ response'.op = "trust_me"
            /\ response'.status = 400
            /\ response'.store_calls = 0
            /\ db' = db
            /\ pc' = pc
            /\ pipe' = pipe ]_vars

\* C12 witness: with claims in the store and the identity header configured, a
\* trust_me was rejected as invalid without a store call.
C12_Witness ==
    /\ response.op = "trust_me"
    /\ response.path = "invalid"
    /\ response.status = 400
    /\ response.store_calls = 0
    /\ CLIENT_USERNAME_HEADER # None
    /\ \E ip \in IPs : Exists(db, IpKey(ip))


\* C13: with the identity header name not configured, a trust_me from a well-formed
\* address is answered 500, not the 400 of a client error.
C13_ConfigFaultIs500 ==
    (CLIENT_USERNAME_HEADER = None /\ response.op = "trust_me" /\ response.path = "config")
        => response.status = 500

\* C14: served one at a time, a successful trust_me of u leaves in place every IP
\* record that named another identity before it.
C14_OthersKeepTrust ==
    [][ \A u \in Users :
          (response'.op = "trust_me" /\ response'.status = 204 /\ response'.username = u) =>
            \A v \in Users \ {u} : \A ip \in IPs :
                db[IpKey(ip)] = Hash(v) => Exists(db', IpKey(ip)) ]_vars

\* C15: from the empty store, under any interleaving, every identity's index set
\* holds at most one entry.
C15_IndexAtMostOne ==
    \A u \in Users : Cardinality(SMembers(db, UserKey(u))) <= 1

\* C15 witness: two racing claims of one identity have both executed (two records
\* name it) and its index holds the single key of the later one.
C15_Witness ==
    \E u \in Users :
        /\ Quiescent
        /\ Cardinality(ClaimedBy(u)) = 2
        /\ Cardinality(SMembers(db, UserKey(u))) = 1
        /\ response.path = "claimed"
        /\ SMembers(db, UserKey(u)) = {IpKey(response.ip)}

\* C16: a step that ends with the response of a check leaves the keyspace (IP
\* records and index sets) as it was, whatever the outcome.
C16_CheckReadOnly ==
    [][ response'.op = "check" => db' = db ]_vars

\* C16 witness: a check was denied while a claim was between its read and its
\* execute and other records were in the store.
C16_Witness ==
    /\ response.op = "check"
    /\ response.status = 403
    /\ \E w \in Workers : pc[w] = "queued"
    /\ \E ip \in IPs : Exists(db, IpKey(ip))

====
